---- MODULE Spec2Model ----
(***************************************************************************)
(* Ainneve archetypes (world/archetypes.py): archetype loading, the dual   *)
(* archetype merge, applying an archetype to a character, the primary      *)
(* trait budget and the derivation of secondary traits.                    *)
(*                                                                         *)
(* A Python str is a sequence of one-character strings, so that            *)
(* str.capitalize, str.title, str.split and str.join are computed          *)
(* character by character.  Python's None is the value None below.         *)
(* Exception messages and trait codes, on which the code performs no       *)
(* character-level operation, are TLA+ strings.                            *)
(***************************************************************************)
EXTENDS Integers, Sequences, FiniteSets, TLC

VARIABLES archetype, traits, className, adjusted, call, result

vars == <<archetype, traits, className, adjusted, call, result>>

(***************************************************************************)
(* Bounds of the model.                                                    *)
(***************************************************************************)
\* number of primary-trait adjustments made on one trait store
MaxAdjust == 4

(***************************************************************************)
(* Python values and strings.                                              *)
(***************************************************************************)
None == [type |-> "NoneType"]

LowerLetters == <<"a", "b", "c", "d", "e", "f", "g", "h", "i", "j", "k", "l", "m",
                  "n", "o", "p", "q", "r", "s", "t", "u", "v", "w", "x", "y", "z">>
UpperLetters == <<"A", "B", "C", "D", "E", "F", "G", "H", "I", "J", "K", "L", "M",
                  "N", "O", "P", "Q", "R", "S", "T", "U", "V", "W", "X", "Y", "Z">>

\* str.upper and str.lower on one character, as tables over the letters
ToUpper == [c \in {LowerLetters[i] : i \in 1..26} |->
               UpperLetters[CHOOSE i \in 1..26 : LowerLetters[i] = c]]
ToLower == [c \in {UpperLetters[i] : i \in 1..26} |->
               LowerLetters[CHOOSE i \in 1..26 : UpperLetters[i] = c]]

IsLower(c) == c \in DOMAIN ToUpper
IsUpper(c) == c \in DOMAIN ToLower
IsCased(c) == IsLower(c) \/ IsUpper(c)

Upper(c) == IF IsLower(c) THEN ToUpper[c] ELSE c
Lower(c) == IF IsUpper(c) THEN ToLower[c] ELSE c

\* str.capitalize: first character upper-cased, all others lower-cased
capitalize(s) == [i \in 1..Len(s) |-> IF i = 1 THEN Upper(s[i]) ELSE Lower(s[i])]

\* str.title: a cased character is upper-cased when it does not follow a
\* cased character, and lower-cased when it does
title(s) ==
    [i \in 1..Len(s) |->
        IF i > 1 /\ IsCased(s[i - 1]) THEN Lower(s[i]) ELSE Upper(s[i])]

\* '-' in s
HasHyphen(s) == \E i \in 1..Len(s) : s[i] = "-"

FirstHyphen(s) == CHOOSE i \in 1..Len(s) : s[i] = "-" /\ \A j \in 1..(i - 1) : s[j] # "-"

\* s.split('-', 1) for a string that holds a hyphen
split1(s) == <<SubSeq(s, 1, FirstHyphen(s) - 1), SubSeq(s, FirstHyphen(s) + 1, Len(s))>>

\* '-'.join((a, b))
join(a, b) == a \o <<"-">> \o b

\* s.replace('-', '')
RECURSIVE replaceHyphen(_)
replaceHyphen(s) ==
    IF s = <<>> THEN <<>>
    ELSE IF Head(s) = "-" THEN replaceHyphen(Tail(s))
    ELSE <<Head(s)>> \o replaceHyphen(Tail(s))

\* the text of a str, as it appears inside a formatted message
RECURSIVE Text(_)
Text(s) == IF s = <<>> THEN "" ELSE Head(s) \o Text(Tail(s))

s_Arcanist == <<"A", "r", "c", "a", "n", "i", "s", "t">>
s_Scout == <<"S", "c", "o", "u", "t">>
s_Warrior == <<"W", "a", "r", "r", "i", "o", "r">>
s_Archetype == <<"A", "r", "c", "h", "e", "t", "y", "p", "e">>
s_ArchetypeException == <<"A", "r", "c", "h", "e", "t", "y", "p", "e",
                          "E", "x", "c", "e", "p", "t", "i", "o", "n">>
s_roll_max == <<"r", "o", "l", "l", "_", "m", "a", "x">>
s_apply_archetype == <<"a", "p", "p", "l", "y", "_", "a", "r", "c", "h", "e", "t", "y", "p", "e">>
s_load_archetype == <<"l", "o", "a", "d", "_", "a", "r", "c", "h", "e", "t", "y", "p", "e">>
s_VALID_ARCHETYPES == <<"V", "A", "L", "I", "D", "_", "A", "R", "C", "H", "E", "T", "Y", "P", "E", "S">>
s_Warrior_Scout == join(s_Warrior, s_Scout)
s_Warrior_Arcanist == join(s_Warrior, s_Arcanist)
s_Arcanist_Scout == join(s_Arcanist, s_Scout)

(***************************************************************************)
(* Module constants.                                                       *)
(***************************************************************************)
VALID_ARCHETYPES == {s_Arcanist, s_Scout, s_Warrior}

PRIMARY_TRAITS == <<"STR", "PER", "INT", "DEX", "CHA", "VIT", "MAG">>
SECONDARY_TRAITS == <<"HP", "SP", "BM", "WM">>
SAVE_ROLLS == <<"FORT", "REFL", "WILL">>
COMBAT_TRAITS == <<"ATKM", "ATKR", "ATKU", "DEF", "PP">>
OTHER_TRAITS == <<"LV", "XP", "ENC", "MV", "ACT">>

ALL_TRAITS == PRIMARY_TRAITS \o SECONDARY_TRAITS \o SAVE_ROLLS \o COMBAT_TRAITS \o OTHER_TRAITS

TOTAL_PRIMARY_POINTS == 30

(***************************************************************************)
(* Outcomes of a call: a returned value or a raised exception.             *)
(***************************************************************************)
Return(v) == [status |-> "return", value |-> v]
Raise(t, m) == [status |-> "raise", type |-> t, msg |-> m]

ArchetypeException(msg) == Raise("ArchetypeException", msg)

(***************************************************************************)
(* Archetype classes.                                                      *)
(***************************************************************************)
Archetype ==
    [name |-> None,
     traits |->
          ("STR" :> [type |-> "trait", base |-> 1, mod |-> 0, name |-> "Strength"])
       @@ ("PER" :> [type |-> "trait", base |-> 1, mod |-> 0, name |-> "Perception"])
       @@ ("INT" :> [type |-> "trait", base |-> 1, mod |-> 0, name |-> "Intelligence"])
       @@ ("DEX" :> [type |-> "trait", base |-> 1, mod |-> 0, name |-> "Dexterity"])
       @@ ("CHA" :> [type |-> "trait", base |-> 1, mod |-> 0, name |-> "Charisma"])
       @@ ("VIT" :> [type |-> "trait", base |-> 1, mod |-> 0, name |-> "Vitality"])
       @@ ("MAG" :> [type |-> "trait", base |-> 0, mod |-> 0, name |-> "Magic"])
       @@ ("BM" :> [type |-> "gauge", base |-> 0, mod |-> 0, min |-> 0, max |-> 0,
            name |-> "Black Mana"])
       @@ ("WM" :> [type |-> "gauge", base |-> 0, mod |-> 0, min |-> 0, max |-> 0,
            name |-> "White Mana"])
       @@ ("HP" :> [type |-> "gauge", base |-> 0, mod |-> 0, name |-> "Health"])
       @@ ("SP" :> [type |-> "gauge", base |-> 0, mod |-> 0, name |-> "Stamina"])
       @@ ("FORT" :> [type |-> "trait", base |-> 0, mod |-> 0, name |-> "Fortitude Save"])
       @@ ("REFL" :> [type |-> "trait", base |-> 0, mod |-> 0, name |-> "Reflex Save"])
       @@ ("WILL" :> [type |-> "trait", base |-> 0, mod |-> 0, name |-> "Will Save"])
       @@ ("ATKM" :> [type |-> "trait", base |-> 0, mod |-> 0, name |-> "Melee Attack"])
       @@ ("ATKR" :> [type |-> "trait", base |-> 0, mod |-> 0, name |-> "Ranged Attack"])
       @@ ("ATKU" :> [type |-> "trait", base |-> 0, mod |-> 0, name |-> "Unarmed Attack"])
       @@ ("DEF" :> [type |-> "trait", base |-> 0, mod |-> 0, name |-> "Defense"])
       @@ ("ACT" :> [type |-> "counter", base |-> 0, mod |-> 0, min |-> 0,
            name |-> "Action Points"])
       @@ ("PP" :> [type |-> "counter", base |-> 0, mod |-> 0, min |-> 0,
            name |-> "Power Points"])
       @@ ("ENC" :> [type |-> "counter", base |-> 0, mod |-> 0, min |-> 0,
            name |-> "Carry Weight"])
       @@ ("MV" :> [type |-> "trait", base |-> 6, mod |-> 0, name |-> "Movement Points"])
       @@ ("LV" :> [type |-> "trait", base |-> 0, mod |-> 0, name |-> "Level"])
       @@ ("XP" :> [type |-> "trait", base |-> 0, mod |-> 0, name |-> "Experience",
            extra |-> [level_boundaries |-> <<500, 2000, 4500, "unlimited">>]]),
     health_roll |-> None]

Arcanist ==
    [name |-> s_Arcanist,
     traits |-> [Archetype.traits EXCEPT !["PER"].base = 4,
                                         !["INT"].base = 6,
                                         !["CHA"].base = 4,
                                         !["MAG"].base = 6,
                                         !["SP"].mod = -2,
                                         !["MV"].base = 7],
     health_roll |-> "1d6-1"]

Scout ==
    [name |-> s_Scout,
     traits |-> [Archetype.traits EXCEPT !["STR"].base = 4,
                                         !["PER"].base = 6,
                                         !["INT"].base = 6,
                                         !["DEX"].base = 4],
     health_roll |-> "1d6"]

Warrior ==
    [name |-> s_Warrior,
     traits |-> [Archetype.traits EXCEPT !["STR"].base = 6,
                                         !["DEX"].base = 4,
                                         !["CHA"].base = 4,
                                         !["VIT"].base = 6,
                                         !["PP"].base = 2,
                                         !["MV"].base = 5],
     health_roll |-> "1d6+1"]

(***************************************************************************)
(* world.rulebook.roll_max: the highest total a dice expression can roll.  *)
(***************************************************************************)
roll_max(roll) ==
    CASE roll = "1d6-1" -> 5
      [] roll = "1d6" -> 6
      [] roll = "1d6+1" -> 7

\* min(x, y, key=roll_max): the first of the smallest
min_by_roll_max(x, y) == IF roll_max(y) < roll_max(x) THEN y ELSE x

(***************************************************************************)
(* globals(): the names bound at module level, each with what calling it   *)
(* without arguments does.                                                 *)
(***************************************************************************)
globals ==
       (s_ArchetypeException :> "ArchetypeException")
    @@ (s_VALID_ARCHETYPES :> "tuple")
    @@ (s_roll_max :> "function")
    @@ (s_apply_archetype :> "function")
    @@ (s_load_archetype :> "function")
    @@ (s_Archetype :> "Archetype")
    @@ (s_Arcanist :> "Arcanist")
    @@ (s_Scout :> "Scout")
    @@ (s_Warrior :> "Warrior")

\* globals().get(name, None)
globals_get(name) == IF name \in DOMAIN globals THEN globals[name] ELSE "None"

\* g(): an archetype class constructs its instance; None, a tuple, and a
\* function or an exception class called without its arguments raise TypeError
Instantiate(g) ==
    CASE g = "Archetype" -> Return(Archetype)
      [] g = "Arcanist" -> Return(Arcanist)
      [] g = "Scout" -> Return(Scout)
      [] g = "Warrior" -> Return(Warrior)
      [] OTHER -> Raise("TypeError", "object is not callable")

(***************************************************************************)
(* _make_dual(a, b).  cn is Archetype.__name__, which the function         *)
(* overwrites; the result is <<outcome, Archetype.__name__ afterwards>>.   *)
(***************************************************************************)
\* names with the Scout and Arcanist pair named in the other order
names_ScoutFirst ==
    <<[key |-> {s_Warrior, s_Scout}, value |-> s_Warrior_Scout],
      [key |-> {s_Warrior, s_Arcanist}, value |-> s_Warrior_Arcanist],
      [key |-> {s_Scout, s_Arcanist}, value |-> join(s_Scout, s_Arcanist)]>>

names ==
    <<[key |-> {s_Warrior, s_Scout}, value |-> s_Warrior_Scout],
      [key |-> {s_Warrior, s_Arcanist}, value |-> s_Warrior_Arcanist],
      [key |-> {s_Scout, s_Arcanist}, value |-> s_Arcanist_Scout]>>

\* dict.get(key, default)
Get(d, key, default) == IF key \in DOMAIN d THEN d[key] ELSE default

\* the loop body of _make_dual on one trait of the new Archetype
MergeTrait(a, b, key, trait) ==
    LET based == [trait EXCEPT !.base = (Get(a.traits, key, trait).base +
                                         Get(b.traits, key, trait).base) \div 2]
    IN  [based EXCEPT !.mod = (Get(a.traits, key, based).mod +
                               Get(b.traits, key, based).mod) \div 2]

\* _make_dual after its two checks: the new Archetype, its traits, health
\* roll, name and class name
MergeArchetypes(a, b, cn) ==
    IF ~ \E i \in 1..Len(names) : names[i].key = {a.name, b.name}
    THEN <<Raise("KeyError", "frozenset"), cn>>
    ELSE LET dual_name == names[CHOOSE i \in 1..Len(names) :
                                    names[i].key = {a.name, b.name}].value
             dual == [name |-> dual_name,
                      traits |-> [key \in DOMAIN Archetype.traits |->
                                     MergeTrait(a, b, key, Archetype.traits[key])],
                      health_roll |-> min_by_roll_max(a.health_roll, b.health_roll)]
         IN  <<Return(dual), replaceHyphen(dual_name)>>

\* _make_dual without its check for a side that is already a dual
_make_dual_NoTripleCheck(a, b, cn) ==
    IF a.name = None \/ b.name = None
    THEN <<Raise("TypeError", "argument of type 'NoneType' is not iterable"), cn>>
    ELSE IF a.name = b.name
    THEN <<ArchetypeException("Cannot create dual of the same Archetype"), cn>>
    ELSE MergeArchetypes(a, b, cn)

_make_dual(a, b, cn) ==
    IF a.name = None
    THEN <<Raise("TypeError", "argument of type 'NoneType' is not iterable"), cn>>
    ELSE IF HasHyphen(a.name)
    THEN <<ArchetypeException("Cannot create Triple-Archetype"), cn>>
    ELSE IF b.name = None
    THEN <<Raise("TypeError", "argument of type 'NoneType' is not iterable"), cn>>
    ELSE IF HasHyphen(b.name)
    THEN <<ArchetypeException("Cannot create Triple-Archetype"), cn>>
    ELSE IF a.name = b.name
    THEN <<ArchetypeException("Cannot create dual of the same Archetype"), cn>>
    ELSE MergeArchetypes(a, b, cn)

(***************************************************************************)
(* load_archetype(name), with Archetype.__name__ threaded through as cn.   *)
(***************************************************************************)
RECURSIVE load_archetype(_, _)
load_archetype(name, cn) ==
    LET titled == title(name) IN
    IF HasHyphen(titled)
    THEN LET parts == split1(titled)
             ra == load_archetype(parts[1], cn)
         IN  IF ra[1].status = "raise" THEN ra
             ELSE LET rb == load_archetype(parts[2], ra[2])
                  IN  IF rb[1].status = "raise" THEN rb
                      ELSE _make_dual(ra[1].value, rb[1].value, rb[2])
    ELSE LET made == Instantiate(globals_get(titled))
         IN  IF made.status = "raise" /\ made.type = "TypeError"
             THEN <<ArchetypeException("Invalid archetype specified."), cn>>
             ELSE <<made, cn>>

(***************************************************************************)
(* apply_archetype(char, name, reset) on a character whose db.archetype is *)
(* arch: <<outcome of the call, Archetype.__name__ afterwards>>.  The      *)
(* returned value is the archetype loaded, which the caller stores.        *)
(***************************************************************************)
\* apply_archetype without its check for the archetype the character is
apply_archetype_NoSameCheck(arch, name, reset, cn) ==
    LET capped == capitalize(name) IN
    IF capped \notin VALID_ARCHETYPES
    THEN <<ArchetypeException("Invalid archetype."), cn>>
    ELSE IF arch # None /\ ~reset
    THEN load_archetype(join(arch, capped), cn)
    ELSE load_archetype(capped, cn)

\* apply_archetype that looks at reset only after the check for the archetype
\* the character is
apply_archetype_SameCheckFirst(arch, name, reset, cn) ==
    LET capped == capitalize(name) IN
    IF capped \notin VALID_ARCHETYPES
    THEN <<ArchetypeException("Invalid archetype."), cn>>
    ELSE IF arch # None /\ arch = capped
    THEN <<ArchetypeException("Character is already a " \o Text(capped)), cn>>
    ELSE IF arch # None /\ ~reset
    THEN load_archetype(join(arch, capped), cn)
    ELSE load_archetype(capped, cn)

apply_archetype(arch, name, reset, cn) ==
    LET capped == capitalize(name) IN
    IF capped \notin VALID_ARCHETYPES
    THEN <<ArchetypeException("Invalid archetype."), cn>>
    ELSE IF arch # None /\ ~reset /\ arch = capped
    THEN <<ArchetypeException("Character is already a " \o Text(capped)), cn>>
    ELSE IF arch # None /\ ~reset
    THEN load_archetype(join(arch, capped), cn)
    ELSE load_archetype(capped, cn)

(***************************************************************************)
(* Trait.actual: base plus modifier, kept inside the trait's bounds when   *)
(* it has both.                                                            *)
(***************************************************************************)
actual(trait) ==
    LET value == trait.base + trait.mod IN
    IF "min" \in DOMAIN trait /\ "max" \in DOMAIN trait
    THEN IF value < trait.min THEN trait.min
         ELSE IF value > trait.max THEN trait.max ELSE value
    ELSE value

\* setting an attribute of a trait, new or not
SetAttr(trait, attr, value) ==
    [k \in DOMAIN trait \cup {attr} |-> IF k = attr THEN value ELSE trait[k]]

RECURSIVE SumBase(_, _)
SumBase(store, codes) ==
    IF codes = <<>> THEN 0 ELSE store[Head(codes)].base + SumBase(store, Tail(codes))

get_remaining_allocation(store) ==
    LET allocated == SumBase(store, PRIMARY_TRAITS)
    IN  TOTAL_PRIMARY_POINTS - allocated

\* validate_primary_traits that refuses a total of exactly the budget
validate_primary_traits_AtLeast(store) ==
    LET total == SumBase(store, PRIMARY_TRAITS) IN
    IF total >= TOTAL_PRIMARY_POINTS
    THEN <<FALSE, "Too many trait points allocated.">>
    ELSE IF total < TOTAL_PRIMARY_POINTS
    THEN <<FALSE, "Not enough trait points allocated.">>
    ELSE <<TRUE, None>>

validate_primary_traits(store) ==
    LET total == SumBase(store, PRIMARY_TRAITS) IN
    IF total > TOTAL_PRIMARY_POINTS
    THEN <<FALSE, "Too many trait points allocated.">>
    ELSE IF total < TOTAL_PRIMARY_POINTS
    THEN <<FALSE, "Not enough trait points allocated.">>
    ELSE <<TRUE, None>>

\* calculate_secondary_traits, "secondary traits" and "save rolls"
CalculateVitals(store) ==
    LET t1 == [store EXCEPT !["HP"].base = actual(store["VIT"])]
        t2 == [t1 EXCEPT !["SP"].base = actual(t1["VIT"])]
        t3 == [t2 EXCEPT !["FORT"].base = actual(t2["VIT"])]
        t4 == [t3 EXCEPT !["REFL"].base = actual(t3["DEX"])]
    IN  [t4 EXCEPT !["WILL"].base = actual(t4["INT"])]

\* the combat traits with the unarmed attack taken from STR
CalculateCombat_UnarmedFromStr(store) ==
    LET t1 == [store EXCEPT !["ATKM"].base = actual(store["STR"])]
        t2 == [t1 EXCEPT !["ATKR"].base = actual(t1["PER"])]
        t3 == [t2 EXCEPT !["ATKU"].base = actual(t2["STR"])]
    IN  [t3 EXCEPT !["DEF"].base = actual(t3["DEX"])]

\* calculate_secondary_traits, "combat"
CalculateCombat(store) ==
    LET t1 == [store EXCEPT !["ATKM"].base = actual(store["STR"])]
        t2 == [t1 EXCEPT !["ATKR"].base = actual(t1["PER"])]
        t3 == [t2 EXCEPT !["ATKU"].base = actual(t2["DEX"])]
    IN  [t3 EXCEPT !["DEF"].base = actual(t3["DEX"])]

\* the mana gauges with 10 added to their max at every call
CalculateMana_Accumulating(store) ==
    LET t1 == [store EXCEPT !["BM"] =
                  SetAttr(@, "max", IF store["MAG"].base > 0 THEN @.max + 10 ELSE 0)]
    IN  [t1 EXCEPT !["WM"] =
            SetAttr(@, "max", IF t1["MAG"].base > 0 THEN @.max + 10 ELSE 0)]

\* calculate_secondary_traits, "mana"
CalculateMana(store) ==
    LET t1 == [store EXCEPT !["BM"] =
                  SetAttr(@, "max", IF store["MAG"].base > 0 THEN 10 ELSE 0)]
    IN  [t1 EXCEPT !["WM"] = SetAttr(@, "max", IF t1["MAG"].base > 0 THEN 10 ELSE 0)]

\* calculate_secondary_traits, "misc"
CalculateMisc(store) ==
    LET t1 == [store EXCEPT !["STR"] = SetAttr(@, "carry_factor", 10)]
        t2 == [t1 EXCEPT !["STR"] = SetAttr(@, "lift_factor", 20)]
        t3 == [t2 EXCEPT !["STR"] = SetAttr(@, "push_factor", 40)]
    IN  [t3 EXCEPT !["ENC"] =
            SetAttr(@, "max", t3["STR"].lift_factor * actual(t3["STR"]))]

calculate_secondary_traits(store) ==
    CalculateMisc(CalculateMana(CalculateCombat(CalculateVitals(store))))

(***************************************************************************)
(* Inputs.                                                                 *)
(***************************************************************************)
lower(s) == [i \in 1..Len(s) |-> Lower(s[i])]
upper(s) == [i \in 1..Len(s) |-> Upper(s[i])]
\* first character lower-case, the others upper-case
inverted(s) == [i \in 1..Len(s) |-> IF i = 1 THEN Lower(s[i]) ELSE Upper(s[i])]

Spellings(s) == {s, lower(s), upper(s), inverted(s)}

s_mage == <<"m", "a", "g", "e">>

\* names given to apply_archetype
ApplyNames ==
    UNION {Spellings(s) : s \in VALID_ARCHETYPES}
    \cup {lower(s_Archetype), s_mage, <<>>, lower(s_Warrior_Scout)}

\* the sides of the hyphenated names given to load_archetype
Sides == VALID_ARCHETYPES \cup {lower(s) : s \in VALID_ARCHETYPES}
         \cup {s_Archetype, s_mage, <<>>}

\* names given to load_archetype
LoadNames ==
    UNION {Spellings(s) : s \in VALID_ARCHETYPES}
    \cup {s_Archetype, lower(s_Archetype), s_ArchetypeException, lower(s_ArchetypeException),
          s_roll_max, s_load_archetype, s_VALID_ARCHETYPES, s_mage, <<>>}
    \cup {join(x, y) : x \in Sides, y \in Sides}
    \cup {join(x, join(y, z)) : x \in VALID_ARCHETYPES, y \in VALID_ARCHETYPES,
                                z \in VALID_ARCHETYPES}

\* names of merges given to load_archetype beside a character
MergeNames ==
    {join(x, y) : x \in VALID_ARCHETYPES, y \in VALID_ARCHETYPES}
    \cup {join(x, join(y, z)) : x \in VALID_ARCHETYPES, y \in VALID_ARCHETYPES,
                                z \in VALID_ARCHETYPES}
    \cup {lower(join(x, x)) : x \in VALID_ARCHETYPES}

\* amounts by which a primary trait is raised
Deltas == {1, 3}

\* the primary traits chargen raises
AdjustCodes == {"STR", "PER", "DEX", "VIT"}

(***************************************************************************)
(* The state: a character's db.archetype and db.traits, the name of the    *)
(* Archetype class, and the last call with its outcome.                    *)
(***************************************************************************)
Init ==
    /\ archetype = None
    /\ traits = None
    /\ className = s_Archetype
    /\ adjusted = 0
    /\ call = [op |-> "none"]
    /\ result = Return(None)

\* apply_archetype that records the name it is about to load on the character
\* before load_archetype has returned
ApplyArchetype_StoreBeforeLoad(name, reset) ==
    LET r == apply_archetype(archetype, name, reset, className)
        capped == capitalize(name)
        merging == archetype # None /\ ~reset
        loads == capped \in VALID_ARCHETYPES /\ ~(merging /\ archetype = capped)
    IN
    /\ call' = [op |-> "apply_archetype", name |-> name, reset |-> reset]
    /\ className' = r[2]
    /\ IF r[1].status = "return"
       THEN /\ traits' = r[1].value.traits
            /\ archetype' = r[1].value.name
            /\ adjusted' = 0
            /\ result' = Return(None)
       ELSE /\ result' = r[1]
            /\ archetype' = IF loads
                            THEN (IF merging THEN join(archetype, capped) ELSE capped)
                            ELSE archetype
            /\ UNCHANGED <<traits, adjusted>>

ApplyArchetype(name, reset) ==
    LET r == apply_archetype(archetype, name, reset, className) IN
    /\ call' = [op |-> "apply_archetype", name |-> name, reset |-> reset]
    /\ className' = r[2]
    /\ IF r[1].status = "return"
       THEN /\ traits' = r[1].value.traits
            /\ archetype' = r[1].value.name
            /\ adjusted' = 0
            /\ result' = Return(None)
       ELSE /\ result' = r[1]
            /\ UNCHANGED <<archetype, traits, adjusted>>

LoadArchetype(name) ==
    LET r == load_archetype(name, className) IN
    /\ call' = [op |-> "load_archetype", name |-> name]
    /\ className' = r[2]
    /\ result' = r[1]
    /\ UNCHANGED <<archetype, traits, adjusted>>

\* chargen raises a primary trait: traits.STR.base += 3
AdjustPrimary(code, delta) ==
    /\ traits # None
    /\ adjusted < MaxAdjust
    /\ traits' = [traits EXCEPT ![code].base = @ + delta]
    /\ adjusted' = adjusted + 1
    /\ call' = [op |-> "adjust_primary"]
    /\ result' = Return(None)
    /\ UNCHANGED <<archetype, className>>

GetRemainingAllocation ==
    /\ traits # None
    /\ call' = [op |-> "get_remaining_allocation"]
    /\ result' = Return(get_remaining_allocation(traits))
    /\ UNCHANGED <<archetype, traits, className, adjusted>>

ValidatePrimaryTraits ==
    /\ traits # None
    /\ call' = [op |-> "validate_primary_traits"]
    /\ result' = Return(validate_primary_traits(traits))
    /\ UNCHANGED <<archetype, traits, className, adjusted>>

CalculateSecondaryTraits ==
    /\ traits # None
    /\ call' = [op |-> "calculate_secondary_traits"]
    /\ traits' = calculate_secondary_traits(traits)
    /\ result' = Return(None)
    /\ UNCHANGED <<archetype, className, adjusted>>

\* CharTraitsTestCase.setUp: the base setUp hands the test a new character
\* char1, one with no archetype and no trait store, in place of the one the
\* test before it had; apply_archetype(char1, 'warrior') makes it a Warrior,
\* four primary traits of its store are raised and the secondary traits are
\* calculated. Archetype.__name__ belongs to the module and is not renewed.
SetUpTraits ==
    LET r == apply_archetype(None, lower(s_Warrior), FALSE, className) IN
    /\ call' = [op |-> "setUp"]
    /\ className' = r[2]
    /\ IF r[1].status = "return"
       THEN /\ archetype' = r[1].value.name
            /\ LET t1 == [r[1].value.traits EXCEPT !["STR"].base = @ + 3]
                   t2 == [t1 EXCEPT !["PER"].base = @ + 1]
                   t3 == [t2 EXCEPT !["DEX"].base = @ + 1]
                   t4 == [t3 EXCEPT !["VIT"].base = @ + 3]
               IN  traits' = calculate_secondary_traits(t4)
            /\ adjusted' = 4
            /\ result' = Return(None)
       ELSE /\ archetype' = None
            /\ traits' = None
            /\ adjusted' = 0
            /\ result' = r[1]

(***************************************************************************)
(* Spec: a character's archetype over its life.                            *)
(***************************************************************************)
Next ==
    \/ \E name \in ApplyNames, reset \in BOOLEAN : ApplyArchetype(name, reset)
    \/ \E name \in MergeNames : LoadArchetype(name)
    \/ SetUpTraits

Spec == Init /\ [][Next]_vars

(***************************************************************************)
(* SpecLoad: load_archetype called on its own.                             *)
(***************************************************************************)
NextLoad == \E name \in LoadNames : LoadArchetype(name)

SpecLoad == Init /\ [][NextLoad]_vars

(***************************************************************************)
(* SpecTraits: chargen on the trait store of a character to which one      *)
(* archetype, or two in turn, have been applied.                           *)
(***************************************************************************)
InitTraits ==
    \E a \in VALID_ARCHETYPES, b \in VALID_ARCHETYPES :
        LET first == apply_archetype(None, a, FALSE, s_Archetype)
            applied == IF a = b THEN first
                       ELSE apply_archetype(first[1].value.name, b, FALSE, first[2])
        IN  /\ archetype = applied[1].value.name
            /\ traits = applied[1].value.traits
            /\ className = applied[2]
            /\ adjusted = 0
            /\ call = [op |-> "apply_archetype", name |-> b, reset |-> FALSE]
            /\ result = Return(None)

NextTraits ==
    \/ \E code \in AdjustCodes, delta \in Deltas : AdjustPrimary(code, delta)
    \/ GetRemainingAllocation
    \/ ValidatePrimaryTraits
    \/ CalculateSecondaryTraits

SpecTraits == InitTraits /\ [][NextTraits]_vars

TypeOK == adjusted \in 0..MaxAdjust

(***************************************************************************)
(* What the properties below refer to.                                     *)
(***************************************************************************)
\* the class of a base archetype name
ClassOf(A) ==
    CASE A = s_Arcanist -> Arcanist
      [] A = s_Scout -> Scout
      [] A = s_Warrior -> Warrior

\* the fixed name of the dual of two different base archetypes
CanonicalDual(A, B) ==
    CASE {A, B} = {s_Warrior, s_Scout} -> s_Warrior_Scout
      [] {A, B} = {s_Warrior, s_Arcanist} -> s_Warrior_Arcanist
      [] {A, B} = {s_Scout, s_Arcanist} -> s_Arcanist_Scout

\* the default table with every base and modifier the floor of the half of
\* the sum of those of A and B
Halved(A, B) ==
    [k \in DOMAIN Archetype.traits |->
        [Archetype.traits[k] EXCEPT
            !.base = (ClassOf(A).traits[k].base + ClassOf(B).traits[k].base) \div 2,
            !.mod = (ClassOf(A).traits[k].mod + ClassOf(B).traits[k].mod) \div 2]]

AlreadyMessage(A) ==
    CASE A = s_Arcanist -> "Character is already a Arcanist"
      [] A = s_Scout -> "Character is already a Scout"
      [] A = s_Warrior -> "Character is already a Warrior"

IsApply(c) == c.op = "apply_archetype"
IsLoad(c) == c.op = "load_archetype"

\* C1: apply_archetype with a base archetype A in any letter case, on a
\* character with no archetype, sets db.archetype to A's name and db.traits
\* to A's default table; on a character that is an A, without reset, it fails
\* with 'Character is already a A'; on a character that is a different base
\* archetype B, without reset, it leaves the dual name of the pair and the
\* merged table of the pair.
C1_ApplyThenDual ==
    [][IsApply(call') =>
        \A A \in VALID_ARCHETYPES :
            call'.name \in Spellings(A) =>
                /\ archetype = None =>
                      /\ result'.status = "return"
                      /\ archetype' = A
                      /\ traits' = ClassOf(A).traits
                /\ (archetype # None /\ archetype = A /\ ~call'.reset) =>
                      /\ result'.status = "raise"
                      /\ result'.type = "ArchetypeException"
                      /\ result'.msg = AlreadyMessage(A)
                /\ \A B \in VALID_ARCHETYPES \ {A} :
                      (archetype # None /\ archetype = B /\ ~call'.reset) =>
                          /\ result'.status = "return"
                          /\ archetype' = CanonicalDual(B, A)
                          /\ traits' = Halved(B, A)]_vars

\* a Warrior that has become a Warrior-Scout by apply_archetype 'scout'
C1_Witness ==
    /\ IsApply(call)
    /\ call.name = lower(s_Scout)
    /\ ~call.reset
    /\ result.status = "return"
    /\ archetype = s_Warrior_Scout
    /\ traits["STR"].base = 5

\* C2: load_archetype("A-B") and load_archetype("B-A"), for two different
\* base archetypes, return an archetype whose every base and modifier is the
\* floor of the half of the sum of those of A and B, and whose name is the
\* fixed name of the pair whatever the order of the two sides.
C2_DualIsHalfSum ==
    IsLoad(call) =>
        \A A \in VALID_ARCHETYPES, B \in VALID_ARCHETYPES :
            (A # B /\ call.name \in {join(x, y) : x \in Spellings(A), y \in Spellings(B)}) =>
                /\ result.status = "return"
                /\ result.value.name = CanonicalDual(A, B)
                /\ \A k \in DOMAIN result.value.traits :
                      /\ result.value.traits[k].base =
                            (ClassOf(A).traits[k].base + ClassOf(B).traits[k].base) \div 2
                      /\ result.value.traits[k].mod =
                            (ClassOf(A).traits[k].mod + ClassOf(B).traits[k].mod) \div 2
                /\ DOMAIN result.value.traits = {ALL_TRAITS[i] : i \in 1..Len(ALL_TRAITS)}

\* 'scout-arcanist' loaded as Arcanist-Scout, Stamina modifier -1
C2_Witness ==
    /\ IsLoad(call)
    /\ call.name = join(lower(s_Scout), lower(s_Arcanist))
    /\ result.status = "return"
    /\ result.value.name = s_Arcanist_Scout
    /\ result.value.traits["SP"].mod = -1
    /\ result.value.traits["MV"].base = 6

\* C3: load_archetype fails with an ArchetypeException for every name
\* without a hyphen that, in title case, is not one of the three archetypes.
C3_UnknownNameRaises ==
    (IsLoad(call) /\ ~HasHyphen(call.name) /\ title(call.name) \notin VALID_ARCHETYPES) =>
        /\ result.status = "raise"
        /\ result.type = "ArchetypeException"

\* the three dual archetypes, each with the base archetype it leaves out
Duals ==
    {[name |-> s_Warrior_Scout, third |-> s_Arcanist],
     [name |-> s_Warrior_Arcanist, third |-> s_Scout],
     [name |-> s_Arcanist_Scout, third |-> s_Warrior]}

SelfDual == ArchetypeException("Cannot create dual of the same Archetype")
Triple == ArchetypeException("Cannot create Triple-Archetype")

\* C4: load_archetype("A-A") fails with 'Cannot create dual of the same
\* Archetype' for every base archetype A; for every dual archetype D and the
\* base archetype C it leaves out, load_archetype of 'D-C' and of 'C-D', and
\* apply_archetype of C without reset on a character that is a D, fail with
\* 'Cannot create Triple-Archetype'.
C4_NoSelfDualNoTriple ==
    [][/\ IsLoad(call') =>
            /\ \A A \in VALID_ARCHETYPES :
                  call'.name \in {join(A, A), lower(join(A, A))} => result' = SelfDual
            /\ \A D \in Duals :
                  call'.name \in {join(D.name, D.third), join(D.third, D.name)} =>
                      result' = Triple
       /\ IsApply(call') =>
            \A D \in Duals :
                (archetype # None /\ archetype = D.name
                    /\ call'.name \in Spellings(D.third) /\ ~call'.reset) =>
                        result' = Triple]_vars

\* a Warrior-Scout refused the Arcanist archetype
C4_Witness ==
    /\ IsApply(call)
    /\ call.name \in Spellings(s_Arcanist)
    /\ ~call.reset
    /\ archetype = s_Warrior_Scout
    /\ result = Triple

PrimaryCodes == {PRIMARY_TRAITS[i] : i \in 1..Len(PRIMARY_TRAITS)}

\* base + modifier of a trait of the character
Actual(code) == traits[code].base + traits[code].mod

IsCalculate(c) == c.op = "calculate_secondary_traits"

\* C5: after calculate_secondary_traits, HP, SP and FORT have base VIT.actual;
\* REFL, ATKU and DEF have base DEX.actual; WILL has base INT.actual; ATKM has
\* base STR.actual; ATKR has base PER.actual; BM.max and WM.max are 10 when
\* MAG.base > 0 and 0 otherwise; ENC.max is 20 * STR.actual.  A Warrior with
\* STR 9, PER 2, INT 1, DEX 5, CHA 4, VIT 9, MAG 0 gets HP = SP = FORT = 9,
\* REFL = 5, WILL = 1, ATKM = 9, ATKR = 2, ATKU = 5, DEF = 5,
\* BM.max = WM.max = 0 and ENC.max = 180.
C5_SecondaryFromPrimary ==
    IsCalculate(call) =>
        /\ traits["HP"].base = Actual("VIT")
        /\ traits["SP"].base = Actual("VIT")
        /\ traits["FORT"].base = Actual("VIT")
        /\ traits["REFL"].base = Actual("DEX")
        /\ traits["ATKU"].base = Actual("DEX")
        /\ traits["DEF"].base = Actual("DEX")
        /\ traits["WILL"].base = Actual("INT")
        /\ traits["ATKM"].base = Actual("STR")
        /\ traits["ATKR"].base = Actual("PER")
        /\ traits["BM"].max = (IF traits["MAG"].base > 0 THEN 10 ELSE 0)
        /\ traits["WM"].max = (IF traits["MAG"].base > 0 THEN 10 ELSE 0)
        /\ traits["ENC"].max = 20 * Actual("STR")
        /\ (/\ archetype = s_Warrior
            /\ <<traits["STR"].base, traits["PER"].base, traits["INT"].base,
                 traits["DEX"].base, traits["CHA"].base, traits["VIT"].base,
                 traits["MAG"].base>> = <<9, 2, 1, 5, 4, 9, 0>>) =>
               /\ <<traits["HP"].base, traits["SP"].base, traits["FORT"].base>> = <<9, 9, 9>>
               /\ <<traits["REFL"].base, traits["WILL"].base>> = <<5, 1>>
               /\ <<traits["ATKM"].base, traits["ATKR"].base, traits["ATKU"].base,
                    traits["DEF"].base>> = <<9, 2, 5, 5>>
               /\ <<traits["BM"].max, traits["WM"].max, traits["ENC"].max>> = <<0, 0, 180>>

\* the Warrior of the test case with its secondary traits calculated
C5_Witness ==
    /\ IsCalculate(call)
    /\ archetype = s_Warrior
    /\ <<traits["STR"].base, traits["PER"].base, traits["INT"].base,
         traits["DEX"].base, traits["CHA"].base, traits["VIT"].base,
         traits["MAG"].base>> = <<9, 2, 1, 5, 4, 9, 0>>
    /\ traits["ENC"].max = 180

\* C6: calculate_secondary_traits called again on the store it has just
\* produced leaves that store as it is, and a call never changes the base or
\* the modifier of a primary trait.
C6_CalculateIdempotent ==
    [][IsCalculate(call') =>
        /\ calculate_secondary_traits(traits') = traits'
        /\ IsCalculate(call) => traits' = traits
        /\ \A code \in PrimaryCodes :
              /\ traits'[code].base = traits[code].base
              /\ traits'[code].mod = traits[code].mod]_vars

\* an Arcanist-Scout, fully adjusted, with its secondary traits calculated
C6_Witness ==
    /\ IsCalculate(call)
    /\ archetype = s_Arcanist_Scout
    /\ adjusted = MaxAdjust
    /\ traits["BM"].max = 10
    /\ traits["STR"].lift_factor = 20
    /\ traits["ENC"].max = 20 * Actual("STR")

\* the sum of the seven primary trait bases of the character
PrimarySum ==
    traits["STR"].base + traits["PER"].base + traits["INT"].base + traits["DEX"].base
    + traits["CHA"].base + traits["VIT"].base + traits["MAG"].base

IsValidate(c) == c.op = "validate_primary_traits"

\* C7: validate_primary_traits returns (False, 'Too many trait points
\* allocated.') when the primary bases sum to more than 30, (False, 'Not
\* enough trait points allocated.') when to less, and (True, None) when to
\* exactly 30; it passes exactly when get_remaining_allocation, 30 minus the
\* sum, is 0.
C7_ValidateByTotal ==
    /\ IsValidate(call) =>
          /\ PrimarySum > 30 =>
                result.value = <<FALSE, "Too many trait points allocated.">>
          /\ PrimarySum < 30 =>
                result.value = <<FALSE, "Not enough trait points allocated.">>
          /\ PrimarySum = 30 => result.value = <<TRUE, None>>
          /\ result.value[1] <=> get_remaining_allocation(traits) = 0
    /\ call.op = "get_remaining_allocation" => result.value = 30 - PrimarySum

\* an over-allocated store refused
C7_Witness ==
    /\ IsValidate(call)
    /\ PrimarySum > 30
    /\ get_remaining_allocation(traits) < 0
    /\ result.value = <<FALSE, "Too many trait points allocated.">>

\* C8: whenever validate_primary_traits reports a trait store as valid, every
\* primary trait other than MAG has its base in 1..10.
C8_ValidImpliesInRange ==
    (IsValidate(call) /\ result.value[1]) =>
        \A code \in PrimaryCodes \ {"MAG"} : traits[code].base \in 1..10

\* C9: a call of load_archetype that does not return raises an
\* ArchetypeException, whatever the name.
C9_OnlyArchetypeException ==
    (IsLoad(call) /\ result.status = "raise") => result.type = "ArchetypeException"

\* C10: apply_archetype with reset and a base archetype name in any letter
\* case succeeds from every state of the character, also when the character
\* is already that archetype, and leaves db.archetype the name of that
\* archetype and db.traits its default table.
C10_ResetAppliesSingle ==
    [][(IsApply(call') /\ call'.reset) =>
        \A A \in VALID_ARCHETYPES :
            call'.name \in Spellings(A) =>
                /\ result'.status = "return"
                /\ archetype' = A
                /\ traits' = ClassOf(A).traits]_vars

\* a character that has been a dual archetype, reset to a Scout
C10_Witness ==
    /\ IsApply(call)
    /\ call.reset
    /\ call.name = inverted(s_Scout)
    /\ result.status = "return"
    /\ archetype = s_Scout
    /\ className = replaceHyphen(s_Warrior_Arcanist)
    /\ traits = Scout.traits

IsDual(arch) == arch # None /\ HasHyphen(arch)

\* C11: an apply_archetype call that raises leaves db.archetype and db.traits
\* as they were before the call; and on a character whose archetype is dual
\* every apply_archetype call without reset raises, so that the character
\* keeps its dual archetype and its trait store.
C11_FailedApplyChangesNothing ==
    [][IsApply(call') =>
        /\ result'.status = "raise" =>
              /\ archetype' = archetype
              /\ traits' = traits
        /\ (IsDual(archetype) /\ ~call'.reset) =>
              /\ result'.status = "raise"
              /\ result'.type = "ArchetypeException"
              /\ archetype' = archetype
              /\ traits' = traits]_vars

\* a Warrior-Scout refused the Scout archetype, one of its own two, and is
\* still a Warrior-Scout with the store the merge gave it
C11_Witness ==
    /\ IsApply(call)
    /\ call.name = lower(s_Scout)
    /\ ~call.reset
    /\ result = SelfDual
    /\ archetype = s_Warrior_Scout
    /\ traits = Halved(s_Warrior, s_Scout)

====
